---- MODULE Spec2Model ----
(***************************************************************************)
(* Model of the ga_data tool (netlify/functions/index.ts): the report      *)
(* generator generateRealisticData, invoked any number of times against    *)
(* one dataset file.                                                       *)
(*                                                                         *)
(* Strings the code inspects character by character (column names, the    *)
(* traffic_source_type filter, ISO dates) are sequences of one-character    *)
(* strings.  JavaScript numbers that are not integers are exact fractions  *)
(* [num, den] in lowest terms; 0/0 stands for NaN.  Epoch times are kept   *)
(* in whole days (getTime() / 86400000), since every date of the model is  *)
(* a date-only ISO string, which JavaScript parses as UTC midnight.        *)
(*                                                                         *)
(* The code computes in IEEE doubles.  The rows, dates and filters of the  *)
(* model are chosen so that on every input of the model, with up to four   *)
(* rows per dataset, each product the code rounds is farther from a half   *)
(* than the double's error or is a half computed exactly, so Math.round of *)
(* the double and of the exact fraction agree.  (This excludes, e.g., a    *)
(* 30-day comparison span, where 50 * (0.85 + 0.3) is 57.49999999999999    *)
(* in doubles and 57.5 exactly.)                                           *)
(***************************************************************************)
EXTENDS Integers, Sequences, FiniteSets

\* Bounds of the model.
MaxRows == 2
RandMod == 2
MaxSessions == 400

VARIABLES
  file,     \* the dataset file on disk: a sequence of rows
  rng,      \* the state of the generator behind Math.random
  called,   \* TRUE once ga_data has returned at least once
  params,   \* the params of the latest invocation
  report,   \* the ReportData the latest invocation returned
  locals,   \* locals of the latest invocation that the report does not show:
            \* the two factors, sessions and users as lines 137-138 set them,
            \* and ga4Data after the sort
  first     \* an earlier invocation kept for comparison: its params, its report
            \* without the random rates, the dataset it read, and whether an
            \* invocation has returned after it

vars == <<file, rng, called, params, report, locals, first>>

----------------------------------------------------------------------------
\* Character strings

UpperAlpha == <<"A","B","C","D","E","F","G","H","I","J","K","L","M",
                "N","O","P","Q","R","S","T","U","V","W","X","Y","Z">>
LowerAlpha == <<"a","b","c","d","e","f","g","h","i","j","k","l","m",
                "n","o","p","q","r","s","t","u","v","w","x","y","z">>
Digits == <<"0","1","2","3","4","5","6","7","8","9">>

Min(S) == CHOOSE x \in S : \A y \in S : x <= y
Max(S) == CHOOSE x \in S : \A y \in S : x >= y

LowerChar(c) ==
  IF \E i \in 1..Len(UpperAlpha) : UpperAlpha[i] = c
  THEN LowerAlpha[CHOOSE i \in 1..Len(UpperAlpha) : UpperAlpha[i] = c]
  ELSE c

\* String.prototype.toLowerCase
toLowerCase(s) == [i \in 1..Len(s) |-> LowerChar(s[i])]

\* String.prototype.trim (the only white space of the model is the blank)
trim(s) ==
  LET idx == {i \in 1..Len(s) : s[i] # " "}
  IN IF idx = {} THEN <<>> ELSE SubSeq(s, Min(idx), Max(idx))

\* String.prototype.includes
includes(hay, needle) ==
  \E i \in 0..(Len(hay) - Len(needle)) :
    SubSeq(hay, i + 1, i + Len(needle)) = needle

\* An optional string parameter that was not supplied.
Absent == <<"undefined">>

\* JavaScript truthiness of an optional string: supplied and not empty.
Truthy(s) == s # Absent /\ s # <<>>

----------------------------------------------------------------------------
\* Numbers

RECURSIVE GCD(_, _)
GCD(a, b) == IF b = 0 THEN a ELSE GCD(b, a % b)

Abs(x) == IF x < 0 THEN -x ELSE x

NaN == [num |-> 0, den |-> 0]

\* The fraction n/d in lowest terms with a positive denominator; x/0 is
\* NaN for x = 0 and an infinity otherwise (JavaScript's division).
Frac(n, d) ==
  IF d = 0 THEN [num |-> IF n > 0 THEN 1 ELSE IF n < 0 THEN -1 ELSE 0, den |-> 0]
  ELSE LET g == GCD(Abs(n), Abs(d))
           s == IF d < 0 THEN -1 ELSE 1
       IN [num |-> s * (n \div g), den |-> s * (d \div g)]

IsNaN(x) == x.den = 0 /\ x.num = 0
IsFinite(x) == x.den > 0

Mul(x, y) ==
  IF IsNaN(x) \/ IsNaN(y) THEN NaN ELSE Frac(x.num * y.num, x.den * y.den)
Add(x, y) ==
  IF ~IsFinite(x) \/ ~IsFinite(y) THEN NaN
  ELSE Frac(x.num * y.den + y.num * x.den, x.den * y.den)
Sub(x, y) == Add(x, [num |-> -y.num, den |-> y.den])
Int2Frac(n) == [num |-> n, den |-> 1]

\* x * k and x + k for a finite x and an integer k
Times(x, k) == Frac(x.num * k, x.den)
Plus(x, k) == [num |-> x.num + k * x.den, den |-> x.den]

\* x <= y as JavaScript compares numbers: false when either is NaN.
Le(x, y) == IsFinite(x) /\ IsFinite(y) /\ x.num * y.den <= y.num * x.den

\* Math.round of a finite number: half rounds up.
round(x) == (2 * x.num + x.den) \div (2 * x.den)

\* Math.max
max(x, y) == IF IsNaN(x) \/ IsNaN(y) THEN NaN ELSE IF Le(x, y) THEN y ELSE x

\* Math.random: the next number in [0, 1) of a generator in state s, and the
\* state after k draws.
random(s, k) == Frac((s + k) % RandMod, RandMod)
rngAfter(s, k) == (s + k) % RandMod

----------------------------------------------------------------------------
\* Dates

DigitOf(c) == (CHOOSE i \in 1..Len(Digits) : Digits[i] = c) - 1
Number2(s, i) == 10 * DigitOf(s[i]) + DigitOf(s[i + 1])
Number4(s, i) == 100 * Number2(s, i) + Number2(s, i + 2)

\* Days from 1970-01-01 to the civil date y-m-d.
DaysFromCivil(y, m, d) ==
  LET yy == IF m <= 2 THEN y - 1 ELSE y
      era == yy \div 400
      yoe == yy - era * 400
      mp == IF m > 2 THEN m - 3 ELSE m + 9
      doy == (153 * mp + 2) \div 5 + d - 1
      doe == yoe * 365 + yoe \div 4 - yoe \div 100 + doy
  IN era * 146097 + doe - 719468

\* new Date("YYYY-MM-DD").getTime(), in days.
getTime(s) == DaysFromCivil(Number4(s, 1), Number2(s, 6), Number2(s, 9))

----------------------------------------------------------------------------
\* The dataset: rows of the static GA4 export.  A row is the sequence of its
\* columns in insertion order (the order Object.keys lists them); a cell is
\* a number or a string.

Num(n) == [t |-> "num", n |-> n, s |-> ""]
Str(s) == [t |-> "str", n |-> 0, s |-> s]
Col(k, v) == [k |-> k, v |-> v]

\* value || fallback
OrElse(v, w) == IF (v.t = "num" /\ v.n = 0) \/ (v.t = "str" /\ v.s = "") THEN w ELSE v

\* Column names of the export.
ColViews == <<"V","i","e","w","s">>
ColViewsPadded == <<" ","V","I","E","W","S"," ">>
ColViewsPerUser == <<"V","i","e","w","s"," ","p","e","r"," ","u","s","e","r">>
ColUsers == <<"U","s","e","r","s">>
ColActiveUsers == <<"A","c","t","i","v","e"," ","u","s","e","r","s">>
ColPaths == <<"P","a","t","h","s">>
ColPagePath == <<"P","a","g","e"," ","p","a","t","h"," ","a","n","d"," ","s","c","r","e","e","n"," ","c","l","a","s","s">>
ColLandingPage == <<"L","a","n","d","i","n","g"," ","p","a","g","e"," ","+"," ","q","u","e","r","y"," ","s","t","r","i","n","g">>

\* The rows a dataset of the model is made of.  A dataset is a sequence of
\* indices into Rows: the JSON array of the file, row by row.
Rows ==
  << <<Col(ColPaths, Str("/home")), Col(ColViews, Num(10)), Col(ColUsers, Num(5))>>,
     <<Col(ColPagePath, Str("/blog")), Col(ColViewsPadded, Num(10)), Col(ColActiveUsers, Num(12))>>,
     <<Col(ColLandingPage, Str("/pricing")), Col(ColViewsPerUser, Num(3)), Col(ColViews, Num(25)), Col(ColUsers, Num(7))>>,
     <<Col(ColPaths, Str("")), Col(ColUsers, Num(2))>>,
     <<Col(ColViews, Num(100)), Col(ColUsers, Num(50)), Col(ColPaths, Str("/docs"))>> >>

RowPool == 1..Len(Rows)

\* The datasets of the model: every sequence of at most MaxRows rows.
Datasets == {data : data \in UNION {[1..n -> RowPool] : n \in 0..MaxRows}}

\* getValue(row, key): the cell of the first column whose lower-cased,
\* trimmed name contains the lower-cased, trimmed key, or 0.
getValue(row, key) ==
  LET lower == trim(toLowerCase(key))
      found == {i \in 1..Len(row) : includes(trim(toLowerCase(row[i].k)), lower)}
  IN IF found = {} \/ row[Min(found)].k = <<>> THEN Num(0) ELSE row[Min(found)].v

\* getValue(row, key) || 0, as a number.
getValueOrZero(row, key) == OrElse(getValue(row, key), Num(0)).n

\* The path of a page entry: the fallback chain over three column names.
pathOf(row) ==
  OrElse(getValue(row, ColPaths),
    OrElse(getValue(row, ColPagePath),
      OrElse(getValue(row, ColLandingPage), Str("/unknown")))).s

\* What the lookups of the code resolve to on each row (evaluated once per
\* row instead of at every use).
Resolved ==
  [ r \in RowPool |->
      [ Views |-> getValueOrZero(Rows[r], ColViews),
        Users |-> getValueOrZero(Rows[r], ColUsers),
        rawViews |-> getValue(Rows[r], ColViews).n,
        path |-> pathOf(Rows[r]) ] ]

RECURSIVE SumViews(_, _)
\* ga4Data.reduce((sum, row) => sum + (getValue(row, "Views") || 0), 0), from row i on
SumViews(data, i) ==
  IF i > Len(data) THEN 0 ELSE Resolved[data[i]].Views + SumViews(data, i + 1)

RECURSIVE SumUsers(_, _)
\* ga4Data.reduce((sum, row) => sum + (getValue(row, "Users") || 0), 0), from row i on
SumUsers(data, i) ==
  IF i > Len(data) THEN 0 ELSE Resolved[data[i]].Users + SumUsers(data, i + 1)

\* The comparator of the sort: (getValue(b, "Views") || 0) - (getValue(a, "Views") || 0)
compare(a, b) == Resolved[b].Views - Resolved[a].Views

RECURSIVE InsertSortedUnstable(_, _)
\* InsertSorted of a sort that is not stable: r goes before the rows equal to it
InsertSortedUnstable(sorted, r) ==
  IF sorted = <<>> THEN <<r>>
  ELSE IF compare(Head(sorted), r) >= 0
       THEN <<r>> \o sorted
       ELSE <<Head(sorted)>> \o InsertSortedUnstable(Tail(sorted), r)

RECURSIVE InsertSorted(_, _)
\* Insert row r, which came after every row of sorted in the array, behind
\* every row the comparator does not put behind it: equal rows keep their order.
InsertSorted(sorted, r) ==
  IF sorted = <<>> THEN <<r>>
  ELSE IF compare(Head(sorted), r) > 0
       THEN <<r>> \o sorted
       ELSE <<Head(sorted)>> \o InsertSorted(Tail(sorted), r)

RECURSIVE SortFrom(_, _, _)
SortFrom(data, i, acc) ==
  IF i > Len(data) THEN acc ELSE SortFrom(data, i + 1, InsertSorted(acc, data[i]))

\* ga4Data.sort(compare): Array.prototype.sort is stable, so this is the
\* stable sort descending by resolved Views.
sort(data) == SortFrom(data, 1, <<>>)

\* What one invocation reads off the dataset (evaluated once per dataset).
Loaded ==
  [ f \in Datasets |->
      [ views |-> SumViews(f, 1), users |-> SumUsers(f, 1), sorted |-> sort(f) ] ]

----------------------------------------------------------------------------
\* generateRealisticData

\* Channel types and what callers pass as traffic_source_type.
organic == <<"o","r","g","a","n","i","c">>
direct == <<"d","i","r","e","c","t">>
referral == <<"r","e","f","e","r","r","a","l">>
social == <<"s","o","c","i","a","l">>

\* |end - start| in days when both dates are supplied and not empty.
daysDiff(startDate, endDate) == Abs(getTime(endDate) - getTime(startDate))

\* dateAdjustmentFactorOf without Math.abs
dateAdjustmentFactorSigned(p) ==
  IF Truthy(p.start_date) /\ Truthy(p.end_date)
  THEN Frac(getTime(p.end_date) - getTime(p.start_date), 30)
  ELSE Int2Frac(1)

dateAdjustmentFactorOf(p) ==
  IF Truthy(p.start_date) /\ Truthy(p.end_date)
  THEN Frac(daysDiff(p.start_date, p.end_date), 30)
  ELSE Int2Frac(1)

comparisonAdjustmentFactorOf(p) ==
  IF Truthy(p.comparison_start_date) /\ Truthy(p.comparison_end_date)
  THEN Add(Frac(85, 100),
           Frac(daysDiff(p.comparison_start_date, p.comparison_end_date), 100))
  ELSE Frac(9, 10)

\* filterTypeOf without toLowerCase
filterTypeExact(p) ==
  IF Truthy(p.traffic_source_type) THEN p.traffic_source_type ELSE Absent

\* params.traffic_source_type.toLowerCase() when the filter is supplied and
\* not empty.
filterTypeOf(p) ==
  IF Truthy(p.traffic_source_type) THEN toLowerCase(p.traffic_source_type) ELSE Absent

\* The literal factors of the code.
Share40 == Frac(40, 100)
Share25 == Frac(25, 100)
Share20 == Frac(20, 100)
Share15 == Frac(15, 100)
KeyEventShare == Frac(5, 100)
UserShare == Frac(7, 10)
PrevUsersExtra == Frac(2, 100)
Half == Frac(5, 10)
TwoAndAHalf == Frac(25, 10)
Zero == Int2Frac(0)

\* Math.round(n * factor) for an integer n and a finite factor
Scale(n, factor) == round([num |-> n * factor.num, den |-> factor.den])

\* 100 * (a / b) for integers a and b
Percent(a, b) == Frac(100 * a, b)

\* const engagementRate = 100 * (users ? sessions / users : 0)
engagementRateOf(sessions, users) == IF users # 0 THEN Percent(sessions, users) ELSE Zero

\* const prevEngagementRate = Math.max(engagementRate - 2.5, 0)
prevEngagementRateOf(engagementRate) == max(Sub(engagementRate, TwoAndAHalf), Zero)

\* Math.floor(n * factor)
ScaleDown(n, factor) == (n * factor.num) \div factor.den

\* channelsDataOf with Math.floor in place of Math.round
channelsDataFloor(sessions) ==
  << [name |-> "Organic Search", sessions |-> ScaleDown(sessions, Share40), type |-> organic],
     [name |-> "Direct", sessions |-> ScaleDown(sessions, Share25), type |-> direct],
     [name |-> "Referral", sessions |-> ScaleDown(sessions, Share20), type |-> referral],
     [name |-> "Social", sessions |-> ScaleDown(sessions, Share15), type |-> social] >>

\* The fixed four-channel split of the total sessions.
channelsDataOf(sessions) ==
  << [name |-> "Organic Search", sessions |-> Scale(sessions, Share40), type |-> organic],
     [name |-> "Direct", sessions |-> Scale(sessions, Share25), type |-> direct],
     [name |-> "Referral", sessions |-> Scale(sessions, Share20), type |-> referral],
     [name |-> "Social", sessions |-> Scale(sessions, Share15), type |-> social] >>

\* channelsData.filter(c => c.type === filterType)
filterByType(channelsData, filterType) ==
  SelectSeq(channelsData, LAMBDA c : c.type = filterType)

\* aggregatesOf with the division guarded as engagementRate's is
aggregatesGuarded(sessions, users, comparisonAdjustmentFactor) ==
  LET keyEvents == Scale(sessions, KeyEventShare)
      sessionKeyEventRate == IF sessions # 0 THEN Percent(keyEvents, sessions) ELSE Zero
  IN [ sessions |-> sessions,
       users |-> users,
       prevSessions |-> Scale(sessions, comparisonAdjustmentFactor),
       prevUsers |-> Scale(users, Add(comparisonAdjustmentFactor, PrevUsersExtra)),
       keyEvents |-> keyEvents,
       prevKeyEvents |-> Scale(keyEvents, comparisonAdjustmentFactor),
       sessionKeyEventRate |-> sessionKeyEventRate,
       prevSessionKeyEventRate |-> Sub(sessionKeyEventRate, Half) ]

\* The top-level aggregates computed from a sessions total (lines 142-148,
\* and again at lines 180-187 for a matched channel).
aggregatesOf(sessions, users, comparisonAdjustmentFactor) ==
  LET keyEvents == Scale(sessions, KeyEventShare)
      sessionKeyEventRate == Percent(keyEvents, sessions)
  IN [ sessions |-> sessions,
       users |-> users,
       prevSessions |-> Scale(sessions, comparisonAdjustmentFactor),
       prevUsers |-> Scale(users, Add(comparisonAdjustmentFactor, PrevUsersExtra)),
       keyEvents |-> keyEvents,
       prevKeyEvents |-> Scale(keyEvents, comparisonAdjustmentFactor),
       sessionKeyEventRate |-> sessionKeyEventRate,
       prevSessionKeyEventRate |-> Sub(sessionKeyEventRate, Half) ]

\* filteredAggregates without the length guard: recomputed from 0 sessions
\* when nothing matched
filteredAggregatesUnguarded(agg, channelsData, comparisonAdjustmentFactor) ==
  IF Len(channelsData) > 0
  THEN aggregatesOf(channelsData[1].sessions,
                    Scale(channelsData[1].sessions, UserShare),
                    comparisonAdjustmentFactor)
  ELSE aggregatesOf(0, 0, comparisonAdjustmentFactor)

\* The aggregates after the traffic_source_type filter: recomputed from the
\* matched channel's sessions, left alone when nothing matched.
filteredAggregates(agg, channelsData, comparisonAdjustmentFactor) ==
  IF Len(channelsData) > 0
  THEN aggregatesOf(channelsData[1].sessions,
                    Scale(channelsData[1].sessions, UserShare),
                    comparisonAdjustmentFactor)
  ELSE agg

pageOf(row, i, seed, dateAdjustmentFactor, comparisonAdjustmentFactor) ==
  LET pageViews == Scale(Resolved[row].rawViews, dateAdjustmentFactor)
  IN [ path |-> Resolved[row].path,
       sessions |-> pageViews,
       prevSessions |-> Scale(pageViews, comparisonAdjustmentFactor),
       keyEventRate |-> Times(random(seed, 2 * (i - 1)), 20),
       prevKeyEventRate |-> Times(random(seed, 2 * (i - 1) + 1), 20) ]

channelOf(c, j, seed, comparisonAdjustmentFactor) ==
  [ name |-> c.name,
    sessions |-> c.sessions,
    prevSessions |-> Scale(c.sessions, comparisonAdjustmentFactor),
    keyEventRate |-> Plus(Times(random(seed, 2 * (j - 1)), 15), 5),
    prevKeyEventRate |-> Plus(Times(random(seed, 2 * (j - 1) + 1), 15), 5) ]

d0101 == <<"2","0","2","4","-","0","1","-","0","1">>
d0116 == <<"2","0","2","4","-","0","1","-","1","6">>
d0131 == <<"2","0","2","4","-","0","1","-","3","1">>
c0101 == <<"2","0","2","3","-","0","1","-","0","1">>
c0114 == <<"2","0","2","3","-","0","1","-","1","4">>
c0201 == <<"2","0","2","3","-","0","2","-","0","1">>
Referral == <<"R","e","f","e","r","r","a","l">>
DIRECT == <<"D","I","R","E","C","T">>
email == <<"e","m","a","i","l">>

\* What callers pass: <<start_date, end_date>>, the comparison pair, the filter.
PrimaryRanges ==
  { <<Absent, Absent>>, <<d0101, Absent>>, <<d0101, d0101>>, <<d0101, d0116>>,
    <<d0116, d0101>>, <<d0101, d0131>> }
ComparisonRanges ==
  { <<Absent, Absent>>, <<c0101, c0114>>, <<c0101, c0201>> }
TrafficSourceTypes == { Absent, <<>>, Referral, DIRECT, email }

GaDataParams(primary, comparison, type) ==
  [ start_date |-> primary[1], end_date |-> primary[2],
    comparison_start_date |-> comparison[1], comparison_end_date |-> comparison[2],
    traffic_source_type |-> type ]

ParamSpace ==
  { GaDataParams(a, c, t) : a \in PrimaryRanges, c \in ComparisonRanges, t \in TrafficSourceTypes }

\* The invocations that may be kept in first for comparison with later ones.
Kept ==
  { GaDataParams(<<d0101, d0116>>, <<Absent, Absent>>, Absent),
    GaDataParams(<<Absent, Absent>>, <<c0101, c0201>>, Absent) }

\* What an invocation derives from its params (evaluated once per value).
DateFactor ==
  [ a \in PrimaryRanges |->
      dateAdjustmentFactorOf(GaDataParams(a, <<Absent, Absent>>, Absent)) ]
ComparisonFactor ==
  [ c \in ComparisonRanges |->
      comparisonAdjustmentFactorOf(GaDataParams(<<Absent, Absent>>, c, Absent)) ]
FilterType ==
  [ t \in TrafficSourceTypes |->
      filterTypeOf(GaDataParams(<<Absent, Absent>>, <<Absent, Absent>>, t)) ]

\* fileAfter of an invocation that writes its sorted rows back
fileAfterSort(f, data) == data

\* The dataset on disk after an invocation that read it into data: the file
\* is only read, and sort works on the invocation's own parsed copy.
fileAfter(f, data) == f

\* ReportData with the engagement rates taken from the final sessions and users
ReportDataRecomputed(final, engagementRate, prevEngagementRate, pages, channels) ==
  [ sessions |-> final.sessions,
    prevSessions |-> final.prevSessions,
    users |-> final.users,
    prevUsers |-> final.prevUsers,
    engagementRate |-> engagementRateOf(final.sessions, final.users),
    prevEngagementRate |-> prevEngagementRateOf(engagementRateOf(final.sessions, final.users)),
    keyEvents |-> final.keyEvents,
    prevKeyEvents |-> final.prevKeyEvents,
    sessionKeyEventRate |-> final.sessionKeyEventRate,
    prevSessionKeyEventRate |-> final.prevSessionKeyEventRate,
    pages |-> pages,
    channels |-> channels ]

\* The ReportData object the function returns.
ReportData(final, engagementRate, prevEngagementRate, pages, channels) ==
  [ sessions |-> final.sessions,
    prevSessions |-> final.prevSessions,
    users |-> final.users,
    prevUsers |-> final.prevUsers,
    engagementRate |-> engagementRate,
    prevEngagementRate |-> prevEngagementRate,
    keyEvents |-> final.keyEvents,
    prevKeyEvents |-> final.prevKeyEvents,
    sessionKeyEventRate |-> final.sessionKeyEventRate,
    prevSessionKeyEventRate |-> final.prevSessionKeyEventRate,
    pages |-> pages,
    channels |-> channels ]

\* A report without the fields Math.random decides.
Deterministic(r) ==
  [ r EXCEPT
      !.pages = [i \in 1..Len(r.pages) |->
                   [path |-> r.pages[i].path, sessions |-> r.pages[i].sessions,
                    prevSessions |-> r.pages[i].prevSessions]],
      !.channels = [j \in 1..Len(r.channels) |->
                      [name |-> r.channels[j].name, sessions |-> r.channels[j].sessions,
                       prevSessions |-> r.channels[j].prevSessions]] ]

\* The body of generateRealisticData from line 140 on: sessions and users
\* are the date-scaled totals of lines 137-138.  The result holds the
\* returned report, the locals at the return and the number of draws made.
reportFrom(f, p, seed, dateAdjustmentFactor, comparisonAdjustmentFactor, sessions, users) ==
  LET ga4Data == Loaded[f].sorted
      pages == [i \in 1..Len(ga4Data) |->
                  pageOf(ga4Data[i], i, seed, dateAdjustmentFactor, comparisonAdjustmentFactor)]
      channelsData == IF Truthy(p.traffic_source_type)
                      THEN filterByType(channelsDataOf(sessions), FilterType[p.traffic_source_type])
                      ELSE channelsDataOf(sessions)
      channels == [j \in 1..Len(channelsData) |->
                     channelOf(channelsData[j], j, rngAfter(seed, 2 * Len(ga4Data)),
                               comparisonAdjustmentFactor)]
  IN [ report |->
         ReportData(IF Truthy(p.traffic_source_type)
                    THEN filteredAggregates(aggregatesOf(sessions, users, comparisonAdjustmentFactor),
                                            channelsData, comparisonAdjustmentFactor)
                    ELSE aggregatesOf(sessions, users, comparisonAdjustmentFactor),
                    engagementRateOf(sessions, users),
                    prevEngagementRateOf(engagementRateOf(sessions, users)),
                    pages, channels),
       locals |->
         [ dateAdjustmentFactor |-> dateAdjustmentFactor,
           comparisonAdjustmentFactor |-> comparisonAdjustmentFactor,
           sessions |-> sessions,
           users |-> users,
           ga4Data |-> ga4Data ],
       draws |-> 2 * Len(ga4Data) + 2 * Len(channelsData) ]

\* generateRealisticData(p) on the dataset file f with Math.random in state seed.
generateRealisticData(f, p, seed) ==
  reportFrom(f, p, seed,
             DateFactor[<<p.start_date, p.end_date>>],
             ComparisonFactor[<<p.comparison_start_date, p.comparison_end_date>>],
             Scale(Loaded[f].views, DateFactor[<<p.start_date, p.end_date>>]),
             Scale(Loaded[f].users, DateFactor[<<p.start_date, p.end_date>>]))

\* What each invocation returns (evaluated once per dataset, params and
\* generator state).
Returned ==
  [ f \in Datasets |->
    [ a \in PrimaryRanges |->
      [ c \in ComparisonRanges |->
        [ t \in TrafficSourceTypes |->
          [ seed \in 0..(RandMod - 1) |->
              generateRealisticData(f, GaDataParams(a, c, t), seed) ] ] ] ] ]

returned(f, p, seed) ==
  Returned[f][<<p.start_date, p.end_date>>]
          [<<p.comparison_start_date, p.comparison_end_date>>]
          [p.traffic_source_type][seed]

NoParams == GaDataParams(<<Absent, Absent>>, <<Absent, Absent>>, Absent)
NoAggregates ==
  [ sessions |-> 0, users |-> 0, prevSessions |-> 0, prevUsers |-> 0, keyEvents |-> 0,
    prevKeyEvents |-> 0, sessionKeyEventRate |-> NaN, prevSessionKeyEventRate |-> NaN ]
NoReport == ReportData(NoAggregates, NaN, NaN, <<>>, <<>>)
NoLocals ==
  [ dateAdjustmentFactor |-> NaN, comparisonAdjustmentFactor |-> NaN,
    sessions |-> 0, users |-> 0, ga4Data |-> <<>> ]

Init ==
  /\ file \in Datasets
  /\ rng \in 0..(RandMod - 1)
  /\ called = FALSE
  /\ params = NoParams
  /\ report = NoReport
  /\ locals = NoLocals
  /\ first = [set |-> FALSE, params |-> NoParams, report |-> Deterministic(NoReport),
              file |-> <<>>, later |-> FALSE]

\* One invocation of the tool: gaData(p) returns generateRealisticData(p).
gaData(p, keep) ==
  \E r \in {returned(file, p, rng)} :
     /\ called' = TRUE
     /\ params' = p
     /\ report' = r.report
     /\ locals' = r.locals
     /\ rng' = rngAfter(rng, r.draws)
     /\ file' = fileAfter(file, r.locals.ga4Data)
     /\ first' = IF keep
                 THEN [set |-> TRUE, params |-> p, report |-> Deterministic(r.report),
                       file |-> file, later |-> FALSE]
                 ELSE [first EXCEPT !.later = first.set]

\* A caller invokes ga_data; the second disjunct is the same invocation, kept
\* for comparison with the later ones.
Next ==
  \/ \E p \in ParamSpace : gaData(p, FALSE)
  \/ \E p \in Kept : ~first.set /\ gaData(p, TRUE)

Spec == Init /\ [][Next]_vars

----------------------------------------------------------------------------
\* Properties.  Each is stated of the latest invocation: its params, the
\* dataset file it read, its locals and the report it returned.

\* The four channel types, the share and the name of each.
ChannelTypes == {organic, direct, referral, social}
ShareOfType(t) ==
  IF t = organic THEN Frac(40, 100)
  ELSE IF t = direct THEN Frac(25, 100)
  ELSE IF t = referral THEN Frac(20, 100)
  ELSE Frac(15, 100)
NameOfType(t) ==
  IF t = organic THEN "Organic Search"
  ELSE IF t = direct THEN "Direct"
  ELSE IF t = referral THEN "Referral"
  ELSE "Social"

\* The supplied filter equals one of the four channel types ignoring case.
FilterMatches(p) ==
  Truthy(p.traffic_source_type) /\ toLowerCase(p.traffic_source_type) \in ChannelTypes

\* Math.round(n * x) for an integer n and a fraction x, from the definitions
\* of the arithmetic alone.
RoundOfProduct(n, x) == round(Mul(Int2Frac(n), x))

\* The factor is |end - start| in days over 30 for a valid pair, and 1.0
\* when either primary date is absent.
DateFactorAsSpecified ==
  /\ IF Truthy(params.start_date) /\ Truthy(params.end_date)
     THEN locals.dateAdjustmentFactor =
            Frac(Abs(getTime(params.end_date) - getTime(params.start_date)), 30)
     ELSE locals.dateAdjustmentFactor = Int2Frac(1)
  /\ (params.start_date = d0101 /\ params.end_date = d0131)
       => locals.dateAdjustmentFactor = Int2Frac(1)
  /\ (params.start_date \in {d0101, d0116} /\ params.end_date \in {d0101, d0116}
        /\ params.start_date # params.end_date)
       => locals.dateAdjustmentFactor = Frac(1, 2)

SessionsAreScaledViews ==
  report.sessions = RoundOfProduct(SumViews(file, 1), locals.dateAdjustmentFactor)

\* C1 as stated: the date factor is |end - start| / 30 for valid pairs and
\* 1.0 when a primary date is absent, and the reported sessions is
\* round(sum of resolved Views * factor) in every report.
C1_AsStated == called => DateFactorAsSpecified /\ SessionsAreScaledViews

\* C1 amended: the date factor is |end - start| / 30 for valid pairs and 1.0
\* when a primary date is absent; the reported sessions is round(sum of
\* resolved Views * factor) unless traffic_source_type matches a channel.
C1_DateFactor ==
  called => /\ DateFactorAsSpecified
            /\ ~FilterMatches(params) => SessionsAreScaledViews

\* A swapped 15-day pair halves the 100 views of the dataset; the filter
\* matches no channel.
C1_Witness ==
  /\ called
  /\ params.start_date = d0116 /\ params.end_date = d0101
  /\ params.traffic_source_type = email
  /\ SumViews(file, 1) = 100
  /\ report.sessions = 50

\* C2: for a traffic_source_type that equals a channel type ignoring case,
\* channels has exactly the matching entry, the top-level sessions is that
\* entry's sessions, round(unfiltered total * share), keyEvents is
\* round(sessions * 0.05) and prevSessions is the entry's prevSessions.
C2_MatchingFilter ==
  (called /\ FilterMatches(params)) =>
     /\ Len(report.channels) = 1
     /\ report.channels[1].name = NameOfType(toLowerCase(params.traffic_source_type))
     /\ report.channels[1].sessions =
          RoundOfProduct(locals.sessions, ShareOfType(toLowerCase(params.traffic_source_type)))
     /\ report.sessions = report.channels[1].sessions
     /\ report.keyEvents = RoundOfProduct(report.sessions, Frac(5, 100))
     /\ report.prevSessions = report.channels[1].prevSessions

C2_Witness ==
  /\ called
  /\ params.traffic_source_type = DIRECT
  /\ locals.sessions = 100
  /\ Len(report.channels) = 1
  /\ report.sessions = 25
  /\ report.keyEvents = 1

\* The top-level aggregates of a report.
Aggregates(r) ==
  << r.sessions, r.users, r.keyEvents, r.prevSessions, r.prevUsers, r.prevKeyEvents,
     r.sessionKeyEventRate, r.prevSessionKeyEventRate >>

\* The latest invocation is the kept one again except for traffic_source_type,
\* on the dataset the kept one read (the kept one had no filter).
SameCallButFilter ==
  /\ first.set /\ first.later
  /\ file = first.file
  /\ params = [first.params EXCEPT !.traffic_source_type = params.traffic_source_type]

UnmatchedLeavesAggregates ==
  SameCallButFilter => Aggregates(report) = Aggregates(first.report)

\* C3 as stated: for every supplied traffic_source_type that matches no
\* channel type, channels is empty and every top-level aggregate equals that
\* of the same call without traffic_source_type.
C3_AsStated ==
  (called /\ params.traffic_source_type # Absent /\ ~FilterMatches(params)) =>
     /\ report.channels = <<>>
     /\ UnmatchedLeavesAggregates

\* C3 amended: for every supplied, non-empty traffic_source_type that matches
\* no channel type, channels is empty and every top-level aggregate equals
\* that of the same call without traffic_source_type.
C3_UnknownFilter ==
  (called /\ Truthy(params.traffic_source_type) /\ ~FilterMatches(params)) =>
     /\ report.channels = <<>>
     /\ UnmatchedLeavesAggregates

C3_Witness ==
  /\ SameCallButFilter
  /\ params.traffic_source_type = email
  /\ report.channels = <<>>
  /\ Len(first.report.channels) = 4
  /\ report.sessions = 50 /\ report.users = 25

\* The permutations of 1..n.
Permutations(n) == {pi \in [1..n -> 1..n] : \A i, j \in 1..n : pi[i] = pi[j] => i = j}

\* C4: pages has one entry per dataset row, each entry's sessions is at least
\* the next entry's (descending by resolved Views), and rows with equal
\* resolved Views keep their relative order of the dataset.
C4_PagesSorted ==
  called =>
    /\ Len(report.pages) = Len(file)
    /\ \A i \in 1..(Len(report.pages) - 1) :
         report.pages[i].sessions >= report.pages[i + 1].sessions
    /\ \E pi \in Permutations(Len(file)) :
         /\ \A i \in 1..Len(file) :
              report.pages[i].path = Resolved[file[pi[i]]].path
         /\ \A i, j \in 1..Len(file) :
              i < j => LET a == Resolved[file[pi[i]]].Views
                           b == Resolved[file[pi[j]]].Views
                       IN a > b \/ (a = b /\ pi[i] < pi[j])

\* Two rows of 10 views each, /blog before /home in the dataset, and so in pages.
C4_Witness ==
  /\ called
  /\ Len(file) = 2
  /\ Resolved[file[1]].path = "/blog" /\ Resolved[file[2]].path = "/home"
  /\ report.pages[1].path = "/blog" /\ report.pages[2].path = "/home"
  /\ report.pages[1].sessions = 10 /\ report.pages[2].sessions = 10

\* The sessions of the entries of a channel list, added up.
RECURSIVE SumSessions(_, _)
SumSessions(entries, i) ==
  IF i > Len(entries) THEN 0 ELSE entries[i].sessions + SumSessions(entries, i + 1)

\* For every total up to MaxSessions the four rounded shares add up to the
\* total, one less or one more.
ChannelSumsClose ==
  \A n \in 0..MaxSessions :
     /\ Len(channelsDataOf(n)) = 4
     /\ SumSessions(channelsDataOf(n), 1) - n \in {-1, 0, 1}

\* C5: with no traffic_source_type, channels has the four entries Organic
\* Search, Direct, Referral, Social in this order, each with sessions =
\* round(total sessions * share) for the shares 0.4, 0.25, 0.2, 0.15, and
\* the four sessions add up to the total sessions give or take 1.
C5_FourChannels ==
  /\ ChannelSumsClose
  /\ (called /\ ~Truthy(params.traffic_source_type)) =>
       /\ Len(report.channels) = 4
       /\ [j \in 1..4 |-> report.channels[j].name] =
            <<"Organic Search", "Direct", "Referral", "Social">>
       /\ [j \in 1..4 |-> report.channels[j].sessions] =
            << RoundOfProduct(report.sessions, Frac(4, 10)),
               RoundOfProduct(report.sessions, Frac(25, 100)),
               RoundOfProduct(report.sessions, Frac(2, 10)),
               RoundOfProduct(report.sessions, Frac(15, 100)) >>
       /\ SumSessions(report.channels, 1) - report.sessions \in {-1, 0, 1}

\* 10 sessions split into 4 + 3 + 2 + 2 = 11.
C5_Witness ==
  /\ called
  /\ params.traffic_source_type = Absent
  /\ report.sessions = 10
  /\ Len(report.channels) = 4
  /\ SumSessions(report.channels, 1) = 11

\* C6: the comparison period is a scaled-down version of the primary one:
\* in every report prevSessions <= sessions, prevUsers <= users,
\* prevKeyEvents <= keyEvents, and every page and channel entry has
\* prevSessions <= sessions.
C6_ScaledDown ==
  called =>
    /\ report.prevSessions <= report.sessions
    /\ report.prevUsers <= report.users
    /\ report.prevKeyEvents <= report.keyEvents
    /\ \A i \in 1..Len(report.pages) :
         report.pages[i].prevSessions <= report.pages[i].sessions
    /\ \A j \in 1..Len(report.channels) :
         report.channels[j].prevSessions <= report.channels[j].sessions

\* A number in [0, 100]; NaN and the infinities are not.
IsPercentage(x) == Le(Zero, x) /\ Le(x, Int2Frac(100))

\* C7: in every report engagementRate and sessionKeyEventRate are in
\* [0, 100], every page and channel keyEventRate and prevKeyEventRate is in
\* [0, 100], and prevEngagementRate is not negative.
C7_RatesArePercentages ==
  called =>
    /\ IsPercentage(report.engagementRate)
    /\ IsPercentage(report.sessionKeyEventRate)
    /\ \A i \in 1..Len(report.pages) :
         IsPercentage(report.pages[i].keyEventRate)
           /\ IsPercentage(report.pages[i].prevKeyEventRate)
    /\ \A j \in 1..Len(report.channels) :
         IsPercentage(report.channels[j].keyEventRate)
           /\ IsPercentage(report.channels[j].prevKeyEventRate)
    /\ Le(Zero, report.prevEngagementRate)

C9_DivisionByZero ==
  called =>
    /\ locals.users = 0 => report.engagementRate = Zero
    /\ report.sessions = 0 =>
         ~IsFinite(report.sessionKeyEventRate) /\ ~IsFinite(report.prevSessionKeyEventRate)
    /\ report.sessions > 0 =>
         report.sessionKeyEventRate = Frac(100 * report.keyEvents, report.sessions)

\* A zero-day primary span over a dataset with views and users.
C9_Witness ==
  /\ called
  /\ SumViews(file, 1) > 0 /\ SumUsers(file, 1) > 0
  /\ params.start_date = d0101 /\ params.end_date = d0101
  /\ locals.users = 0 /\ report.engagementRate = Zero
  /\ report.sessions = 0 /\ IsNaN(report.sessionKeyEventRate)

\* C10: engagementRate and prevEngagementRate come from the unfiltered,
\* date-scaled sessions and users: for a fixed dataset and primary date
\* range they are the same for every traffic_source_type and every
\* comparison date pair.
C10_EngagementFrame ==
  /\ called =>
       /\ report.engagementRate =
            (IF locals.users # 0 THEN Frac(100 * locals.sessions, locals.users) ELSE Zero)
       /\ report.prevEngagementRate =
            (IF Le(Frac(25, 10), report.engagementRate)
             THEN Sub(report.engagementRate, Frac(25, 10)) ELSE Zero)
  /\ (first.set /\ file = first.file
        /\ params.start_date = first.params.start_date
        /\ params.end_date = first.params.end_date) =>
       /\ report.engagementRate = first.report.engagementRate
       /\ report.prevEngagementRate = first.report.prevEngagementRate

\* A later invocation with the kept one's primary dates, other comparison
\* dates and a matching filter that replaces sessions and users.
C10_Witness ==
  /\ first.set /\ first.later
  /\ params.start_date = first.params.start_date
  /\ params.end_date = first.params.end_date
  /\ params.comparison_start_date # first.params.comparison_start_date
  /\ FilterMatches(params)
  /\ report.sessions # first.report.sessions /\ report.users # first.report.users
  /\ report.engagementRate = first.report.engagementRate
  /\ report.engagementRate = Int2Frac(200)

====
